---- MODULE Spec2Model ----
(***************************************************************************)
(* The air-quality / water-pollution dashboard of src/main.py as a state   *)
(* machine.  One behaviour is one browser session: the script runs from    *)
(* top to bottom, and every widget interaction reruns it.  Text is a       *)
(* sequence of one-character strings; numbers are held in tenths (15 is    *)
(* 1.5), which is the resolution of the decimal texts the model reads and  *)
(* writes.                                                                 *)
(***************************************************************************)
EXTENDS Integers, Sequences, FiniteSets, TLC

VARIABLES
    file,                   \* the source CSV: [header, rows], fields as text
    cache,                  \* st.cache_data's memo of load_data()
    reads,                  \* how many times pd.read_csv read the file
    previous,               \* how the previous run of the script ended
    pc,                     \* position of the current script run
    df,                     \* the module-level name df of the current run
    selected_country,
    selected_region,
    air_quality_range,
    water_pollution_range,
    heatmap,                \* what tab3 showed
    top_cities,
    worst_cities,
    country_stats,
    csv,                    \* the text handed to the download button
    error                   \* the exception that ended the run, if any

vars == <<file, cache, reads, previous, pc, df, selected_country, selected_region,
          air_quality_range, water_pollution_range, heatmap, top_cities,
          worst_cities, country_stats, csv, error>>

----------------------------------------------------------------------------
(* Bounds of the model *)

MaxRows == 2

MaxRankRows == 11

MaxExportRows == 2

----------------------------------------------------------------------------
(* Text *)

\* The characters the model uses, in code-point order.
Alphabet ==
    <<"\n", " ", "\"", ",", "-", ".",
      "0", "1", "2", "3", "4", "5", "6", "7", "8", "9",
      "A", "C", "N", "P", "Q", "R", "S", "W", "X", "Z",
      "a", "b", "e", "g", "i", "l", "n", "o", "r", "t", "u", "y">>

Ord(c) == CHOOSE i \in 1..Len(Alphabet) : Alphabet[i] = c

Digits == <<"0", "1", "2", "3", "4", "5", "6", "7", "8", "9">>

IsDigit(c) == \E d \in 1..10 : Digits[d] = c

DigitValue(c) == (CHOOSE d \in 1..10 : Digits[d] = c) - 1

RECURSIVE TextLess(_, _)
\* Python's str <: lexicographic by code point.
TextLess(a, b) ==
    IF b = <<>> THEN FALSE
    ELSE IF a = <<>> THEN TRUE
    ELSE IF Head(a) = Head(b) THEN TextLess(Tail(a), Tail(b))
    ELSE Ord(Head(a)) < Ord(Head(b))

Min(a, b) == IF a <= b THEN a ELSE b

Abs(n) == IF n < 0 THEN -n ELSE n

RECURSIVE Concat(_)
Concat(ss) == IF ss = <<>> THEN <<>> ELSE Head(ss) \o Concat(Tail(ss))

RECURSIVE Join(_, _)
Join(ss, sep) ==
    IF ss = <<>> THEN <<>>
    ELSE IF Len(ss) = 1 THEN ss[1]
    ELSE ss[1] \o sep \o Join(Tail(ss), sep)

\* The sentinel option "All".
All == <<"A", "l", "l">>

----------------------------------------------------------------------------
(* Cells and number texts *)

StrCell(s) == [t |-> "str", s |-> s, n |-> 0]

IntCell(n) == [t |-> "int", s |-> <<>>, n |-> n]

FloatCell(n) == [t |-> "float", s |-> <<>>, n |-> n]

RECURSIVE DigitsValue(_)
DigitsValue(s) ==
    IF s = <<>> THEN 0
    ELSE 10 * DigitsValue(SubSeq(s, 1, Len(s) - 1)) + DigitValue(s[Len(s)])

AllDigits(s) == s # <<>> /\ \A i \in 1..Len(s) : IsDigit(s[i])

Unsigned(s) == IF s # <<>> /\ Head(s) = "-" THEN Tail(s) ELSE s

\* An integer literal: -?d+
IsIntText(s) == AllDigits(Unsigned(s))

\* A decimal literal with one fractional digit: -?d+.d
IsFloatText(s) ==
    LET u == Unsigned(s) IN
    /\ Len(u) >= 3
    /\ u[Len(u) - 1] = "."
    /\ IsDigit(u[Len(u)])
    /\ AllDigits(SubSeq(u, 1, Len(u) - 2))

IsNumberText(s) == IsIntText(s) \/ IsFloatText(s)

\* The value of a number text, in tenths.
ParseNumber(s) ==
    LET u == Unsigned(s)
        m == IF IsIntText(s) THEN 10 * DigitsValue(u)
             ELSE 10 * DigitsValue(SubSeq(u, 1, Len(u) - 2)) + DigitValue(u[Len(u)])
    IN  IF Head(s) = "-" THEN -m ELSE m

RECURSIVE DigitsOf(_)
DigitsOf(k) ==
    IF k < 10 THEN <<Digits[k + 1]>>
    ELSE DigitsOf(k \div 10) \o <<Digits[(k % 10) + 1]>>

\* str() of an int64 and repr() of a float64, as to_csv writes them.
FormatNumber(cell) ==
    LET m == Abs(cell.n)
        sign == IF cell.n < 0 THEN <<"-">> ELSE <<>>
    IN  IF cell.t = "int" THEN sign \o DigitsOf(m \div 10)
        ELSE sign \o DigitsOf(m \div 10) \o <<".">> \o DigitsOf(m % 10)

\* Python's int(): truncation toward zero.
PyInt(n) == IF n >= 0 THEN n \div 10 ELSE -((-n) \div 10)

----------------------------------------------------------------------------
(* Tables: a table is a sequence of rows, a row a record of cells plus the *)
(* pandas index label idx.                                                 *)

ColumnOrder == <<"City", "Country", "Region", "AirQuality", "WaterPollution">>

ColumnNames == {ColumnOrder[j] : j \in 1..Len(ColumnOrder)}

ColumnText(c) ==
    CASE c = "City" -> <<"C", "i", "t", "y">>
      [] c = "Country" -> <<"C", "o", "u", "n", "t", "r", "y">>
      [] c = "Region" -> <<"R", "e", "g", "i", "o", "n">>
      [] c = "AirQuality" -> <<"A", "i", "r", "Q", "u", "a", "l", "i", "t", "y">>
      [] c = "WaterPollution" ->
            <<"W", "a", "t", "e", "r", "P", "o", "l", "l", "u", "t", "i", "o", "n">>

IsSpace(c) == c = " " \/ c = "\n"

RECURSIVE StripLeft(_)
StripLeft(s) == IF s # <<>> /\ IsSpace(Head(s)) THEN StripLeft(Tail(s)) ELSE s

RECURSIVE StripRight(_)
StripRight(s) ==
    IF s # <<>> /\ IsSpace(s[Len(s)]) THEN StripRight(SubSeq(s, 1, Len(s) - 1)) ELSE s

IsNotQuote(c) == c # "\""

\* df.columns.str.replace('"', '').str.strip()
NormalizeHeader(s) == StripRight(StripLeft(SelectSeq(s, IsNotQuote)))

\* read_csv's type inference for one column of field texts: int64 when every
\* field is an integer literal, float64 when every field is a number, and
\* text otherwise.
InferColumn(fields) ==
    IF \A i \in 1..Len(fields) : IsIntText(fields[i])
    THEN [i \in 1..Len(fields) |-> IntCell(ParseNumber(fields[i]))]
    ELSE IF \A i \in 1..Len(fields) : IsNumberText(fields[i])
    THEN [i \in 1..Len(fields) |-> FloatCell(ParseNumber(fields[i]))]
    ELSE [i \in 1..Len(fields) |-> StrCell(fields[i])]

\* pd.read_csv on tokenised CSV content, followed by the header clean-up of
\* load_data.  Rows get the RangeIndex labels 0, 1, ...
ReadCsv(tok) ==
    LET names == [j \in 1..Len(tok.header) |-> NormalizeHeader(tok.header[j])]
        pos(c) == CHOOSE j \in 1..Len(names) : names[j] = ColumnText(c)
        cols == [c \in ColumnNames |->
                    InferColumn([i \in 1..Len(tok.rows) |-> tok.rows[i][pos(c)]])]
    IN  [i \in 1..Len(tok.rows) |->
            [c \in ColumnNames \cup {"idx"} |->
                IF c = "idx" THEN IntCell(i - 1) ELSE cols[c][i]]]

Remove(s, i) == SubSeq(s, 1, i - 1) \o SubSeq(s, i + 1, Len(s))

----------------------------------------------------------------------------
(* CSV text *)

NeedsQuote(s) == \E i \in 1..Len(s) : s[i] \in {",", "\"", "\n"}

QuoteField(s) ==
    <<"\"">>
    \o Concat([i \in 1..Len(s) |-> IF s[i] = "\"" THEN <<"\"", "\"">> ELSE <<s[i]>>])
    \o <<"\"">>

\* csv.QUOTE_MINIMAL, the default of to_csv.
WriteField(cell) ==
    IF cell.t = "str"
    THEN IF NeedsQuote(cell.s) THEN QuoteField(cell.s) ELSE cell.s
    ELSE FormatNumber(cell)

WriteLine(fields) == Join(fields, <<",">>) \o <<"\n">>

\* df.to_csv(index=False): the header line, then one line per row, columns
\* in table order, no index column.
ToCsv(d) ==
    WriteLine([j \in 1..Len(ColumnOrder) |-> WriteField(StrCell(ColumnText(ColumnOrder[j])))])
    \o Concat([i \in 1..Len(d) |->
                 WriteLine([j \in 1..Len(ColumnOrder) |-> WriteField(d[i][ColumnOrder[j]])])])

\* The first position from i on that holds a character of S, or one past
\* the end of the text.
FirstAt(text, i, S) ==
    LET hits == {k \in i..Len(text) : text[k] \in S}
    IN  IF hits = {} THEN Len(text) + 1
        ELSE CHOOSE k \in hits : \A m \in hits : k <= m

RECURSIVE Unescape(_)
\* The content of a quoted field: a doubled quote is one quote.
Unescape(s) ==
    IF s = <<>> THEN <<>>
    ELSE IF Len(s) >= 2 /\ s[1] = "\"" /\ s[2] = "\""
    THEN <<"\"">> \o Unescape(SubSeq(s, 3, Len(s)))
    ELSE <<s[1]>> \o Unescape(Tail(s))

\* The field that starts at position i and the position of the separator
\* that ends it.  A quote opens a quoted field only as the first character
\* of a field; the quoted part ends at the first quote that is not half of a
\* doubled quote, and what follows it up to the separator is taken as is.
FieldAt(text, i) ==
    IF i <= Len(text) /\ text[i] = "\""
    THEN LET closers ==
                 {j \in (i + 1)..Len(text) :
                     /\ text[j] = "\""
                     /\ Cardinality({k \in (i + 1)..(j - 1) : text[k] = "\""}) % 2 = 0
                     /\ (j = Len(text) \/ text[j + 1] # "\"")}
             close == IF closers = {} THEN Len(text) + 1
                      ELSE CHOOSE j \in closers : \A m \in closers : j <= m
             end == FirstAt(text, close + 1, {",", "\n"})
         IN  [value |-> Unescape(SubSeq(text, i + 1, close - 1))
                            \o SubSeq(text, close + 1, end - 1),
              end |-> end]
    ELSE LET end == FirstAt(text, i, {",", "\n"})
         IN  [value |-> SubSeq(text, i, end - 1), end |-> end]

RECURSIVE LineAt(_, _, _)
\* The fields of the line that starts at position i, and where the next
\* line starts.
LineAt(text, i, row) ==
    LET f == FieldAt(text, i)
    IN  IF f.end > Len(text) \/ text[f.end] = "\n"
        THEN [fields |-> Append(row, f.value), next |-> f.end + 1]
        ELSE LineAt(text, f.end + 1, Append(row, f.value))

RECURSIVE LinesFrom(_, _)
\* The lines of a CSV text from position i on; blank lines are skipped.
LinesFrom(text, i) ==
    IF i > Len(text) THEN <<>>
    ELSE IF text[i] = "\n" THEN LinesFrom(text, i + 1)
    ELSE LET line == LineAt(text, i, <<>>)
         IN  <<line.fields>> \o LinesFrom(text, line.next)

\* The tokenizer of read_csv: the header line and the data lines.
Tokenize(text) ==
    LET lines == LinesFrom(text, 1)
    IN  [header |-> Head(lines), rows |-> Tail(lines)]

----------------------------------------------------------------------------
(* The script's expressions *)

RECURSIVE SortedCells(_)
\* sorted(values) of a set of text cells.
SortedCells(S) ==
    IF S = {} THEN <<>>
    ELSE LET m == CHOOSE x \in S : \A y \in S : ~TextLess(y.s, x.s)
         IN  <<m>> \o SortedCells(S \ {m})

Unique(d, c) == {d[i][c] : i \in 1..Len(d)}

\* ["All"] + sorted(df[c].unique().tolist())
Options(d, c) == <<StrCell(All)>> \o SortedCells(Unique(d, c))

CountryOptions(d) == Options(d, "Country")

\* Region options built from the whole loaded table instead of df.
RegionOptionsOfLoadedTable(d) == Options(cache.value, "Region")

\* The region options are built from df as the country step left it.
RegionOptions(d) == Options(d, "Region")

\* if selected != "All": df = df[df[c] == selected]
KeepEqual(d, c, selected) ==
    IF selected # StrCell(All)
    THEN LET keep(r) == r[c] = selected IN SelectSeq(d, keep)
    ELSE d

NaN == [nan |-> TRUE, n |-> 0]

Number(n) == [nan |-> FALSE, n |-> n]

\* Series.min() and Series.max(): NaN on an empty column.
ColumnMin(d, c) ==
    IF d = <<>> THEN NaN
    ELSE Number(CHOOSE v \in {d[i][c].n : i \in 1..Len(d)} :
                    \A i \in 1..Len(d) : v <= d[i][c].n)

ColumnMax(d, c) ==
    IF d = <<>> THEN NaN
    ELSE Number(CHOOSE v \in {d[i][c].n : i \in 1..Len(d)} :
                    \A i \in 1..Len(d) : v >= d[i][c].n)

\* The values a range slider can return: whole numbers lo <= hi between its
\* bounds; its default is the pair of bounds.
SliderValues(lo, hi) == {<<a, b>> \in (lo..hi) \X (lo..hi) : a <= b}

\* The range test with its upper end exclusive.
InRangeUpperExclusive(v, range) == v >= 10 * range[1] /\ v < 10 * range[2]

\* (df[c] >= range[0]) & (df[c] <= range[1]), range in whole units.
InRange(v, range) == v >= 10 * range[1] /\ v <= 10 * range[2]

KeepInRange(d, c, range) ==
    LET keep(r) == InRange(r[c].n, range) IN SelectSeq(d, keep)

\* The guard with its bound off by one: if len(df) > 0.
AnyRowForCorrelation(d) == Len(d) > 0

\* if len(df) > 1
EnoughForCorrelation(d) == Len(d) > 1

RECURSIVE DescendingOrders(_, _)
\* Every order sort_values(ascending=False) may leave the rows in: its
\* default kind, quicksort, is not a stable sort, so rows with equal keys
\* may come out in any order.  keys[i] is the sort key of d[i].
DescendingOrders(d, keys) ==
    IF d = <<>> THEN {<<>>}
    ELSE LET top == {i \in 1..Len(d) : \A j \in 1..Len(d) : keys[i] >= keys[j]}
         IN  UNION {{<<d[i]>> \o rest :
                        rest \in DescendingOrders(Remove(d, i), Remove(keys, i))} :
                    i \in top}

SortValuesDescending(d, c) == DescendingOrders(d, [i \in 1..Len(d) |-> d[i][c].n])

HeadRows == 10

\* .tail(10) in place of .head(10)
TailOf(d) == SubSeq(d, Len(d) - Min(HeadRows, Len(d)) + 1, Len(d))

\* .head(10)
HeadOf(d) == SubSeq(d, 1, Min(HeadRows, Len(d)))

RECURSIVE Sum(_)
Sum(s) == IF s = <<>> THEN 0 ELSE Head(s) + Sum(Tail(s))

\* The mean of a column, as the fraction sum / count (sum in tenths).
Mean(d, c) == [num |-> Sum([i \in 1..Len(d) |-> d[i][c].n]), den |-> Len(d)]

\* Group rows whose means are taken over the whole table instead of over
\* the group.
GroupMeansOverWholeTable(d) ==
    LET keys == SortedCells(Unique(d, "Country"))
    IN  [k \in 1..Len(keys) |->
            [idx |-> IntCell(k - 1),
             Country |-> keys[k],
             AirQuality |-> Mean(d, "AirQuality"),
             WaterPollution |-> Mean(d, "WaterPollution")]]

\* df.groupby("Country").agg(mean).reset_index(): one row per Country value
\* of d, in sorted key order.
GroupMeans(d) ==
    LET keys == SortedCells(Unique(d, "Country"))
        group(k) == KeepEqual(d, "Country", keys[k])
    IN  [k \in 1..Len(keys) |->
            [idx |-> IntCell(k - 1),
             Country |-> keys[k],
             AirQuality |-> Mean(group(k), "AirQuality"),
             WaterPollution |-> Mean(group(k), "WaterPollution")]]

RECURSIVE Product(_)
Product(s) == IF s = <<>> THEN 1 ELSE Head(s) * Product(Tail(s))

\* .sort_values(by="AirQuality", ascending=False) of the group rows; the
\* means are compared over the common denominator.
SortStats(g) ==
    LET common == Product([k \in 1..Len(g) |-> g[k].AirQuality.den])
    IN  DescendingOrders(g, [k \in 1..Len(g) |->
            g[k].AirQuality.num * (common \div g[k].AirQuality.den)])

----------------------------------------------------------------------------
(* The script, statement by statement *)

NoCell == StrCell(<<>>)

RunLocalsReset ==
    /\ df' = <<>>
    /\ selected_country' = NoCell
    /\ selected_region' = NoCell
    /\ air_quality_range' = <<0, 0>>
    /\ water_pollution_range' = <<0, 0>>
    /\ heatmap' = "none"
    /\ top_cities' = <<>>
    /\ worst_cities' = <<>>
    /\ country_stats' = <<>>
    /\ csv' = <<>>
    /\ error' = "none"

\* load_data() without memoisation: every run reads the file.
LoadDataEveryRun ==
    /\ pc = "load"
    /\ df' = ReadCsv(file)
    /\ cache' = [loaded |-> TRUE, value |-> ReadCsv(file)]
    /\ reads' = reads + 1
    /\ pc' = "country"
    /\ UNCHANGED <<file, previous, selected_country, selected_region, air_quality_range,
                   water_pollution_range, heatmap, top_cities, worst_cities,
                   country_stats, csv, error>>

\* lines 8-15: df = load_data(), behind st.cache_data
LoadData ==
    /\ pc = "load"
    /\ IF cache.loaded
       THEN /\ df' = cache.value
            /\ UNCHANGED <<cache, reads>>
       ELSE /\ df' = ReadCsv(file)
            /\ cache' = [loaded |-> TRUE, value |-> ReadCsv(file)]
            /\ reads' = reads + 1
    /\ pc' = "country"
    /\ UNCHANGED <<file, previous, selected_country, selected_region, air_quality_range,
                   water_pollution_range, heatmap, top_cities, worst_cities,
                   country_stats, csv, error>>

\* lines 37-39
SelectCountry ==
    /\ pc = "country"
    /\ \E k \in 1..Len(CountryOptions(df)) :
          /\ selected_country' = CountryOptions(df)[k]
          /\ df' = KeepEqual(df, "Country", CountryOptions(df)[k])
    /\ pc' = "region"
    /\ UNCHANGED <<file, cache, reads, previous, selected_region, air_quality_range,
                   water_pollution_range, heatmap, top_cities, worst_cities,
                   country_stats, csv, error>>

\* lines 41-43
SelectRegion ==
    /\ pc = "region"
    /\ \E k \in 1..Len(RegionOptions(df)) :
          /\ selected_region' = RegionOptions(df)[k]
          /\ df' = KeepEqual(df, "Region", RegionOptions(df)[k])
    /\ pc' = "air_slider"
    /\ UNCHANGED <<file, cache, reads, previous, selected_country, air_quality_range,
                   water_pollution_range, heatmap, top_cities, worst_cities,
                   country_stats, csv, error>>

\* lines 45-48: int(NaN) raises ValueError, which ends the run
AirQualitySlider ==
    /\ pc = "air_slider"
    /\ LET lo == ColumnMin(df, "AirQuality")
           hi == ColumnMax(df, "AirQuality")
       IN  IF lo.nan \/ hi.nan
           THEN /\ error' = "ValueError"
                /\ pc' = "crashed"
                /\ UNCHANGED air_quality_range
           ELSE /\ air_quality_range' \in SliderValues(PyInt(lo.n), PyInt(hi.n))
                /\ pc' = "water_slider"
                /\ UNCHANGED error
    /\ UNCHANGED <<file, cache, reads, previous, df, selected_country, selected_region,
                   water_pollution_range, heatmap, top_cities, worst_cities,
                   country_stats, csv>>

\* lines 50-53
WaterPollutionSlider ==
    /\ pc = "water_slider"
    /\ LET lo == ColumnMin(df, "WaterPollution")
           hi == ColumnMax(df, "WaterPollution")
       IN  IF lo.nan \/ hi.nan
           THEN /\ error' = "ValueError"
                /\ pc' = "crashed"
                /\ UNCHANGED water_pollution_range
           ELSE /\ water_pollution_range' \in SliderValues(PyInt(lo.n), PyInt(hi.n))
                /\ pc' = "filter"
                /\ UNCHANGED error
    /\ UNCHANGED <<file, cache, reads, previous, df, selected_country, selected_region,
                   air_quality_range, heatmap, top_cities, worst_cities,
                   country_stats, csv>>

\* lines 56-57
FilterRanges ==
    /\ pc = "filter"
    /\ df' = KeepInRange(KeepInRange(df, "AirQuality", air_quality_range),
                         "WaterPollution", water_pollution_range)
    /\ pc' = "tab3"
    /\ UNCHANGED <<file, cache, reads, previous, selected_country, selected_region,
                   air_quality_range, water_pollution_range, heatmap, top_cities,
                   worst_cities, country_stats, csv, error>>

\* lines 103-111
CorrelationTab ==
    /\ pc = "tab3"
    /\ heatmap' = IF EnoughForCorrelation(df) THEN "matrix" ELSE "not_enough_data"
    /\ pc' = "tab4"
    /\ UNCHANGED <<file, cache, reads, previous, df, selected_country, selected_region,
                   air_quality_range, water_pollution_range, top_cities, worst_cities,
                   country_stats, csv, error>>

\* lines 116-119
TopCitiesTab ==
    /\ pc = "tab4"
    /\ \E sorted \in SortValuesDescending(df, "AirQuality") :
          top_cities' = HeadOf(sorted)
    /\ pc' = "tab5"
    /\ UNCHANGED <<file, cache, reads, previous, df, selected_country, selected_region,
                   air_quality_range, water_pollution_range, heatmap, worst_cities,
                   country_stats, csv, error>>

\* lines 124-127
WorstCitiesTab ==
    /\ pc = "tab5"
    /\ \E sorted \in SortValuesDescending(df, "WaterPollution") :
          worst_cities' = HeadOf(sorted)
    /\ pc' = "tab6"
    /\ UNCHANGED <<file, cache, reads, previous, df, selected_country, selected_region,
                   air_quality_range, water_pollution_range, heatmap, top_cities,
                   country_stats, csv, error>>

\* lines 132-138
CountryStatsTab ==
    /\ pc = "tab6"
    /\ country_stats' \in SortStats(GroupMeans(df))
    /\ pc' = "download"
    /\ UNCHANGED <<file, cache, reads, previous, df, selected_country, selected_region,
                   air_quality_range, water_pollution_range, heatmap, top_cities,
                   worst_cities, csv, error>>

\* lines 143-149
Download ==
    /\ pc = "download"
    /\ csv' = ToCsv(df)
    /\ pc' = "done"
    /\ UNCHANGED <<file, cache, reads, previous, df, selected_country, selected_region,
                   air_quality_range, water_pollution_range, heatmap, top_cities,
                   worst_cities, country_stats, error>>

\* A widget interaction: Streamlit runs the whole script again.  The cache
\* outlives the run; every name of the script is bound afresh.
Rerun ==
    /\ pc \in {"done", "crashed"}
    /\ pc' = "load"
    /\ previous' = IF pc = "crashed" THEN "crashed"
                   ELSE IF Len(df) < Len(cache.value) THEN "filtered"
                   ELSE "unfiltered"
    /\ RunLocalsReset
    /\ UNCHANGED <<file, cache, reads>>

Next ==
    \/ LoadData
    \/ SelectCountry
    \/ SelectRegion
    \/ AirQualitySlider
    \/ WaterPollutionSlider
    \/ FilterRanges
    \/ CorrelationTab
    \/ TopCitiesTab
    \/ WorstCitiesTab
    \/ CountryStatsTab
    \/ Download
    \/ Rerun

----------------------------------------------------------------------------
(* Source files *)

PlainHeader == [j \in 1..Len(ColumnOrder) |-> ColumnText(ColumnOrder[j])]

\* Header names wrapped in quotes and padded, as load_data expects them.
QuotedHeader == [j \in 1..Len(ColumnOrder) |-> <<" ", "\"">> \o ColumnText(ColumnOrder[j]) \o <<"\"">>]

RowsUpTo(n, S) == UNION {[1..k -> S] : k \in 0..n}

\* City, Country, Region of the rows the filter files are made of: region S
\* lies in both countries, region N in country X only.
Places ==
    { <<<<"a">>, <<"X">>, <<"N">>>>,
      <<<<"a">>, <<"X">>, <<"S">>>>,
      <<<<"b">>, <<"Z">>, <<"S">>>> }

\* AirQuality and WaterPollution of those rows: fractional, whole and
\* negative values, written with and without a decimal point.
Measures ==
    { << <<"0", ".", "5">>, <<"-", "1", ".", "5">> >>,
      << <<"1", ".", "0">>, <<"1">> >>,
      << <<"2", ".", "0">>, <<"1">> >> }

FilterRows == {p \o m : p \in Places, m \in Measures}

FilterFiles == {[header |-> PlainHeader, rows |-> r] : r \in RowsUpTo(MaxRows, FilterRows)}

InitWith(files) ==
    /\ file \in files
    /\ cache = [loaded |-> FALSE, value |-> <<>>]
    /\ reads = 0
    /\ previous = "none"
    /\ pc = "load"
    /\ df = <<>>
    /\ selected_country = NoCell
    /\ selected_region = NoCell
    /\ air_quality_range = <<0, 0>>
    /\ water_pollution_range = <<0, 0>>
    /\ heatmap = "none"
    /\ top_cities = <<>>
    /\ worst_cities = <<>>
    /\ country_stats = <<>>
    /\ csv = <<>>
    /\ error = "none"

Init == InitWith(FilterFiles)

Spec == Init /\ [][Next]_vars

\* Long single-region files for the rankings: AirQuality runs over 0.0, 0.2,
\* ..., 1.0 so that values repeat, WaterPollution over 0.0, 0.1, ..., 1.0,
\* and every third row is of country X.
RankRow(i, stride) ==
    << <<"a">>,
       IF i % 3 = 0 THEN <<"X">> ELSE <<"Z">>,
       <<"N">>,
       FormatNumber(FloatCell(2 * ((i * stride) % 6))),
       FormatNumber(FloatCell((i * 3) % 11)) >>

RankFiles ==
    {[header |-> QuotedHeader, rows |-> [i \in 1..n |-> RankRow(i, stride)]] :
        n \in 0..MaxRankRows, stride \in {1, 5}}

InitRank == InitWith(RankFiles)

SpecRank == InitRank /\ [][Next]_vars

\* Files whose city names need quoting, or read as numbers.
ExportCities == { <<"a">>, <<"7">>, <<"a", ",", "b">>, <<"\"", "a">> }

ExportRows ==
    {<<city, country, <<"N">>, a, <<"1">>>> :
        city \in ExportCities, country \in {<<"X">>, <<"Z">>},
        a \in {<<"1">>, <<"2", ".", "0">>}}

ExportFiles ==
    {[header |-> h, rows |-> r] :
        h \in {PlainHeader, QuotedHeader}, r \in RowsUpTo(MaxExportRows, ExportRows)}

InitExport == InitWith(ExportFiles)

SpecExport == InitExport /\ [][Next]_vars

----------------------------------------------------------------------------
(* Properties *)

\* The Dataset: the table load_data() returned and st.cache_data keeps.
Dataset == cache.value

AfterFilter == {"tab3", "tab4", "tab5", "tab6", "download", "done"}

IsAll(cell) == cell = StrCell(All)

InTable(r, d) == \E i \in 1..Len(d) : d[i] = r

\* The four predicates of the FilterState the current run chose.
PassesCountry(r) == IsAll(selected_country) \/ r.Country = selected_country

PassesRegion(r) == IsAll(selected_region) \/ r.Region = selected_region

PassesAir(r) ==
    /\ 10 * air_quality_range[1] <= r.AirQuality.n
    /\ r.AirQuality.n <= 10 * air_quality_range[2]

PassesWater(r) ==
    /\ 10 * water_pollution_range[1] <= r.WaterPollution.n
    /\ r.WaterPollution.n <= 10 * water_pollution_range[2]

PassesAll(r) == PassesCountry(r) /\ PassesRegion(r) /\ PassesAir(r) /\ PassesWater(r)

\* C1: once the range filter has run, a record of the Dataset is in the view
\* if and only if it satisfies the country, region, air-quality and
\* water-pollution predicates (range ends inclusive), and every row of the
\* view is a record of the Dataset, each at most once and in Dataset order.
C1_ViewIsExactlyThePassingRecords ==
    pc \in AfterFilter =>
        /\ \A i \in 1..Len(Dataset) : InTable(Dataset[i], df) <=> PassesAll(Dataset[i])
        /\ \A i \in 1..Len(df) : InTable(df[i], Dataset)
        /\ \A i, j \in 1..Len(df) : i < j => df[i].idx.n < df[j].idx.n

\* A run that chose a country and a region, kept a record lying on both ends
\* of the air-quality range and dropped another for its air quality alone.
C1_Witness ==
    /\ pc = "done"
    /\ ~IsAll(selected_country)
    /\ ~IsAll(selected_region)
    /\ \E i \in 1..Len(df) :
          /\ df[i].AirQuality.n = 10 * air_quality_range[1]
          /\ df[i].AirQuality.n = 10 * air_quality_range[2]
    /\ \E i \in 1..Len(Dataset) :
          /\ PassesCountry(Dataset[i]) /\ PassesRegion(Dataset[i]) /\ PassesWater(Dataset[i])
          /\ ~PassesAir(Dataset[i])
          /\ ~InTable(Dataset[i], df)

\* The pair a range slider shows before the user touches it.
DefaultRange(d, c) == <<PyInt(ColumnMin(d, c).n), PyInt(ColumnMax(d, c).n)>>

\* C2: with country and region "All" and both sliders at their defaults, the
\* view is the whole Dataset.
C2_DefaultFilterKeepsEveryRecord ==
    ( /\ pc \in AfterFilter
      /\ IsAll(selected_country)
      /\ IsAll(selected_region)
      /\ air_quality_range = DefaultRange(Dataset, "AirQuality")
      /\ water_pollution_range = DefaultRange(Dataset, "WaterPollution") )
    => df = Dataset

AfterCorrelation == {"tab4", "tab5", "tab6", "download", "done"}

\* C3: the correlation matrix is computed exactly when the view has more
\* than one record; a view of 0 or 1 records gets the "not enough data"
\* message instead, and the run then goes on through the rankings, the
\* group statistics and the export without an error.
C3_CorrelationOnlyAboveOneRecord ==
    /\ pc \in AfterCorrelation =>
          /\ heatmap = "matrix" <=> Len(df) > 1
          /\ heatmap = "not_enough_data" <=> Len(df) <= 1
          /\ error = "none"
    /\ (pc \in {"tab4", "tab5", "tab6", "download"} /\ Len(df) <= 1) => ENABLED Next
    /\ pc \notin AfterCorrelation => heatmap = "none"
    /\ pc = "done" => csv # <<>>

\* A finished run over an empty view that showed the message.
C3_Witness ==
    /\ pc = "done"
    /\ df = <<>>
    /\ heatmap = "not_enough_data"
    /\ csv # <<>>

AfterTopCities == {"tab5", "tab6", "download", "done"}

AfterWorstCities == {"tab6", "download", "done"}

\* A ranking of the view by column c: min(10, |view|) distinct rows of the
\* view, non-increasing in c, and no row left out exceeds a row kept.
IsRanking(rank, c) ==
    /\ Len(rank) = Min(10, Len(df))
    /\ \A i \in 1..Len(rank) : InTable(rank[i], df)
    /\ \A i, j \in 1..Len(rank) : i < j =>
          /\ rank[i] # rank[j]
          /\ rank[i][c].n >= rank[j][c].n
    /\ \A i \in 1..Len(df) : ~InTable(df[i], rank) =>
          \A j \in 1..Len(rank) : df[i][c].n <= rank[j][c].n

\* C4: the top-10 ranking by AirQuality and the worst-10 ranking by
\* WaterPollution each hold exactly min(10, |view|) records of the view in
\* non-increasing order of their field, and no record left out has a strictly
\* greater value than one included.
C4_RankingsAreTheTopTen ==
    /\ pc \in AfterTopCities => IsRanking(top_cities, "AirQuality")
    /\ pc \in AfterWorstCities => IsRanking(worst_cities, "WaterPollution")

\* A finished run over a view of more than ten records, one of which the
\* air-quality ranking left out.
C4_Witness ==
    /\ pc = "done"
    /\ Len(df) > 10
    /\ Len(top_cities) = 10
    /\ Len(worst_cities) = 10
    /\ \E i \in 1..Len(df) : ~InTable(df[i], top_cities)

\* Rows with equal values of c keep the order they have in the view.
TiesInViewOrder(rank, c) ==
    \A i, j \in 1..Len(rank) :
        (i < j /\ rank[i][c].n = rank[j][c].n) => rank[i].idx.n < rank[j].idx.n

\* C5: in both rankings records with equal values of the ranking field
\* appear in their relative order in the view.
C5_RankingTiesKeepViewOrder ==
    /\ pc \in AfterTopCities => TiesInViewOrder(top_cities, "AirQuality")
    /\ pc \in AfterWorstCities => TiesInViewOrder(worst_cities, "WaterPollution")

AfterCountryStats == {"download", "done"}

RowsOfCountry(k) == {i \in 1..Len(df) : df[i].Country = k}

RECURSIVE SumOver(_, _)
SumOver(I, c) ==
    IF I = {} THEN 0
    ELSE LET i == CHOOSE x \in I : TRUE IN df[i][c].n + SumOver(I \ {i}, c)

\* C6: the country statistics partition the view: every record's country has
\* exactly one row, every row's country has a record in the view, and the
\* row's two values are the sum over that country's records divided by
\* their number.
C6_CountryStatsPartitionTheView ==
    pc \in AfterCountryStats =>
        /\ \A i \in 1..Len(df) :
              Cardinality({k \in 1..Len(country_stats) :
                              country_stats[k].Country = df[i].Country}) = 1
        /\ Len(country_stats) = Cardinality({df[i].Country : i \in 1..Len(df)})
        /\ \A k \in 1..Len(country_stats) :
              LET rows == RowsOfCountry(country_stats[k].Country) IN
              /\ rows # {}
              /\ country_stats[k].AirQuality.den = Cardinality(rows)
              /\ country_stats[k].AirQuality.num = SumOver(rows, "AirQuality")
              /\ country_stats[k].WaterPollution.den = Cardinality(rows)
              /\ country_stats[k].WaterPollution.num = SumOver(rows, "WaterPollution")

\* A finished run whose view holds two countries with several records each,
\* not all of one country's records alike.
C6_Witness ==
    /\ pc = "done"
    /\ Len(country_stats) = 2
    /\ \A k \in 1..2 : country_stats[k].AirQuality.den >= 2
    /\ \E i, j \in 1..Len(df) :
          /\ df[i].Country = df[j].Country
          /\ df[i].AirQuality # df[j].AirQuality

CellValue(cell) == IF cell.t = "str" THEN <<"text", cell.s>> ELSE <<"number", cell.n>>

\* The records of a table: the field values of each row, without the index.
Records(d) == [i \in 1..Len(d) |-> [c \in ColumnNames |-> CellValue(d[i][c])]]

\* C7: the exported text, parsed again, holds the records of the view, in
\* order, with the same field values.
C7_ExportRoundTrip ==
    pc = "done" => Records(ReadCsv(Tokenize(csv))) = Records(df)

\* C8: with a Dataset of zero rows the run does not crash; it ends in an
\* explicit LoadError or ConfigurationError before any slider range is
\* derived.
C8_EmptyDatasetEndsInExplicitError ==
    (cache.loaded /\ cache.value = <<>>) =>
        /\ pc # "crashed"
        /\ error # "ValueError"
        /\ pc \in AfterFilter => error \in {"LoadError", "ConfigurationError"}

\* C9: over any sequence of reruns the file is read at most once, the memo
\* holds the Dataset as first loaded, and load_data() hands every run that
\* Dataset, whatever earlier runs filtered.
C9_DatasetLoadedOnceAndNeverChanged ==
    /\ reads <= 1
    /\ cache.loaded <=> reads = 1
    /\ previous # "none" => cache.loaded
    /\ pc = "country" => (df = ReadCsv(file) /\ cache.value = df)

\* A rerun that has just loaded a Dataset of several records, after a run
\* whose filters had removed records.
C9_Witness ==
    /\ previous = "filtered"
    /\ pc = "country"
    /\ reads = 1
    /\ Len(df) >= 2

\* C10: with a non-empty Dataset, whatever country and region are chosen from
\* the options offered, the table the sliders are built from is non-empty and
\* both sliders get bounds with lower <= upper; the run does not crash.
C10_OfferedChoicesLeaveRows ==
    (cache.loaded /\ cache.value # <<>>) =>
        /\ pc # "crashed"
        /\ pc \in {"air_slider", "water_slider", "filter"} =>
              /\ df # <<>>
              /\ DefaultRange(df, "AirQuality")[1] <= DefaultRange(df, "AirQuality")[2]
              /\ DefaultRange(df, "WaterPollution")[1] <= DefaultRange(df, "WaterPollution")[2]

\* A run that chose a country and a region, both other than "All", out of a
\* Dataset with more countries and regions, and reached the second slider.
C10_Witness ==
    /\ pc = "water_slider"
    /\ ~IsAll(selected_country)
    /\ ~IsAll(selected_region)
    /\ Len(df) < Len(Dataset)
    /\ \E i \in 1..Len(Dataset) :
          /\ Dataset[i].Region = selected_region
          /\ Dataset[i].Country # selected_country

====
